---------------------------- MODULE Spec2Model ----------------------------
(***************************************************************************)
(* Tailwind Color Generator: the language-model tool callbacks of the      *)
(* editor extension (src/extension.js) and the stdio MCP server            *)
(* (mcp-server.js, kept in src/unnamed/part_000 from line 483 on).         *)
(*                                                                         *)
(* Every request is handled by one callback that runs to completion on    *)
(* the single JavaScript thread, so one action models one handler.  The    *)
(* state is the request being served and what the handler produced for     *)
(* it; Deliver hands the result to the caller, after which the next        *)
(* request can be served.                                                  *)
(*                                                                         *)
(* Short JavaScript strings (colors, names, messages) are TLA+ strings     *)
(* (TLC evaluates Len, \o and SubSeq on them).  A text the program builds  *)
(* from a template is the sequence of its pieces, which read one after     *)
(* the other give the text; a line break is always a piece of its own,     *)
(* NL, so the lines of a text are the runs of pieces between two NL.       *)
(* JavaScript numbers are modelled by exact integers and exact fractions   *)
(* <<numerator, denominator>>: the rounding error of IEEE doubles is not   *)
(* modelled.  An optional argument is a sequence of length 0 (undefined)   *)
(* or 1.                                                                   *)
(*                                                                         *)
(* Three specifications share the module.  Spec serves one request at a    *)
(* time; ConcurrentSpec keeps several invocations in flight together;      *)
(* EditorSpec follows the extension in the editor: activation, the         *)
(* welcome message and two of the commands.  Each leaves the variables of  *)
(* the others as Init sets them.                                           *)
(***************************************************************************)
EXTENDS Integers, Sequences, FiniteSets, TLC

VARIABLES
    host,       \* "lm": in-process tool callback, "mcp": stdio server, "none"
    tool,       \* the operation name of the request served last
    input,      \* options.input / request.params.arguments of that request
    palettes,   \* the palettes the handler derived (<<>> when none)
    gradient,   \* the value generateGradientStops returned (no stops when none)
    response,   \* what the handler gave back: a text result or a thrown error
    \* invocations in flight at the same time
    shadeList,  \* the module-level array TAILWIND_SHADES as it stands
    inflight,   \* per slot: the request being served and its result, or Idle
    \* the extension in the editor: activation and the commands
    active,             \* activate has run and deactivate has not
    activations,        \* how many times activate has run
    registered,         \* the registrations that are live in the editor
    subscriptions,      \* context.subscriptions
    hasShownWelcome,    \* context.globalState: the persisted flag
    welcome,            \* the welcome message: times shown, and whether it is open
    testProcess,        \* the test command's run: the spawned process, its output,
                        \* the timer and the messages shown
    paletteCommand,     \* the generatePalette command's run: where it stands, what
                        \* was entered and the messages shown
    inserted            \* what that run inserted into the active editor's document

toolVars == <<host, tool, input, palettes, gradient, response>>
concurrentVars == <<shadeList, inflight>>
editorVars == <<active, activations, registered, subscriptions, hasShownWelcome, welcome,
                testProcess, paletteCommand, inserted>>
vars == <<toolVars, concurrentVars, editorVars>>

(***************************************************************************)
(* Bounds of the model.                                                    *)
(***************************************************************************)
MaxColors == 3      \* longest colors list handed to the gradient tool
MaxSteps == 5       \* largest explicit step count handed to the gradient tool
MaxInflight == 2    \* invocations that can be in flight at the same time
MaxActivations == 2 \* activations of the extension over the same global state
MaxChunks == 2      \* data events of the process the test command spawns

(***************************************************************************)
(* Optional values and small helpers.                                      *)
(***************************************************************************)
Opt(S) == {<<>>} \cup {<<x>> : x \in S}
Given(o) == Len(o) = 1
OrDefault(o, d) == IF Len(o) = 1 THEN o[1] ELSE d

Max(a, b) == IF a >= b THEN a ELSE b
Min(a, b) == IF a <= b THEN a ELSE b
Abs(a) == IF a < 0 THEN -a ELSE a

RECURSIVE GCD(_, _)
GCD(a, b) == IF b = 0 THEN a ELSE GCD(b, a % b)

\* The sequences over S of length lo..hi.
SeqsOf(S, lo, hi) == UNION {[1..n -> S] : n \in lo..hi}

(***************************************************************************)
(* Strings.                                                                *)
(***************************************************************************)
Char(s, i) == SubSeq(s, i, i)

\* s.slice(k) for 0 <= k
Slice(s, k) == SubSeq(s, k + 1, Len(s))

\* The first index at which pat occurs in s, 0 when it does not.
IndexOf(s, pat) ==
    LET hits == {i \in 1..(Len(s) - Len(pat) + 1) : SubSeq(s, i, i + Len(pat) - 1) = pat}
    IN  IF hits = {} THEN 0 ELSE CHOOSE i \in hits : \A j \in hits : i <= j

\* s.replace(pat, rep) with a string pattern: the first occurrence only.
Replace(s, pat, rep) ==
    LET i == IndexOf(s, pat)
    IN  IF i = 0 THEN s
        ELSE SubSeq(s, 1, i - 1) \o rep \o SubSeq(s, i + Len(pat), Len(s))

RECURSIVE Join(_, _)
\* parts.join(sep)
Join(parts, sep) ==
    IF Len(parts) = 0 THEN ""
    ELSE IF Len(parts) = 1 THEN parts[1]
    ELSE parts[1] \o sep \o Join(Tail(parts), sep)

RECURSIVE Repeat(_, _)
Repeat(s, n) == IF n <= 0 THEN "" ELSE s \o Repeat(s, n - 1)

\* s.padStart(n, "0")
PadStart0(s, n) == Repeat("0", n - Len(s)) \o s

LowerHex == "0123456789abcdef"
UpperHex == "0123456789ABCDEF"

\* The value of each hexadecimal digit, of either case.
HexTable ==
    [c \in {Char(LowerHex, i) : i \in 1..16} \cup {Char(UpperHex, i) : i \in 1..16} |->
        IF \E i \in 1..16 : Char(LowerHex, i) = c
        THEN (CHOOSE i \in 1..16 : Char(LowerHex, i) = c) - 1
        ELSE (CHOOSE i \in 1..16 : Char(UpperHex, i) = c) - 1]

\* The value of one hexadecimal digit, -1 for any other character.
HexVal(ch) == IF ch \in DOMAIN HexTable THEN HexTable[ch] ELSE -1

IsHexDigits(s) == \A i \in 1..Len(s) : HexVal(Char(s, i)) >= 0

RECURSIVE HexToNat(_)
\* The number a string of hexadecimal digits denotes.
HexToNat(s) ==
    IF Len(s) = 0 THEN 0
    ELSE 16 * HexToNat(SubSeq(s, 1, Len(s) - 1)) + HexVal(Char(s, Len(s)))

RECURSIVE NatToString16(_)
\* n.toString(16) for an integer n >= 0
NatToString16(n) ==
    IF n < 16 THEN Char(LowerHex, n + 1)
    ELSE NatToString16(n \div 16) \o Char(LowerHex, (n % 16) + 1)

(***************************************************************************)
(* Gradient generation (src/extension.js).                                 *)
(***************************************************************************)
TooFewColors == "At least 2 colors are required for gradient generation"

\* /^#?([a-f\d]{2})([a-f\d]{2})([a-f\d]{2})$/i : null is the empty sequence.
hexToRgb(hex) ==
    LET body == IF Len(hex) > 0 /\ Char(hex, 1) = "#" THEN Slice(hex, 1) ELSE hex
    IN  IF Len(body) = 6 /\ IsHexDigits(body)
        THEN << [r |-> HexToNat(SubSeq(body, 1, 2)),
                 g |-> HexToNat(SubSeq(body, 3, 4)),
                 b |-> HexToNat(SubSeq(body, 5, 6))] >>
        ELSE <<>>

rgbToHex(r, g, b) ==
    "#" \o Slice(NatToString16(16777216 + r * 65536 + g * 256 + b), 1)

\* Math.round(a + (fn/fd) * (b - a)) with fd > 0: round half up.
RoundMix(a, b, fn, fd) == (2 * (a * fd + fn * (b - a)) + fd) \div (2 * fd)

\* factor is the fraction <<fn, fd>>
interpolateColors(color1, color2, factor) ==
    LET rgb1 == hexToRgb(color1)
        rgb2 == hexToRgb(color2)
    IN  IF rgb1 = <<>> \/ rgb2 = <<>>
        THEN color1
        ELSE rgbToHex(RoundMix(rgb1[1].r, rgb2[1].r, factor[1], factor[2]),
                      RoundMix(rgb1[1].g, rgb2[1].g, factor[1], factor[2]),
                      RoundMix(rgb1[1].b, rgb2[1].b, factor[1], factor[2]))

\* GradientStop without the shortcut for an index that is a whole number: every
\* stop is mixed by interpolateColors, which writes the color anew.
GradientStopAlwaysMixed(colors, steps, i) ==
    LET num        == i * (Len(colors) - 1)
        lowerIndex == num \div (steps - 1)
        upperIndex == Min(lowerIndex + 1, Len(colors) - 1)
        factor     == <<num - lowerIndex * (steps - 1), steps - 1>>
    IN  [color    |-> interpolateColors(colors[lowerIndex + 1], colors[upperIndex + 1], factor),
         position |-> (2 * i * 10000 + (steps - 1)) \div (2 * (steps - 1))]

\* GradientStop with stepSize = 100 / steps instead of 100 / (steps - 1).
GradientStopBySteps(colors, steps, i) ==
    LET num        == i * (Len(colors) - 1)
        lowerIndex == num \div (steps - 1)
        upperIndex == (num + steps - 2) \div (steps - 1)
        factor     == <<num - lowerIndex * (steps - 1), steps - 1>>
    IN  [color    |-> IF lowerIndex = upperIndex
                      THEN colors[lowerIndex + 1]
                      ELSE interpolateColors(colors[lowerIndex + 1],
                                             colors[upperIndex + 1], factor),
         position |-> (2 * i * 10000 + steps) \div (2 * steps)]

\* LowerIndex with colorIndex = (i / steps) * (n - 1): the index never reaches
\* the last seed.
LowerIndexBySteps(n, steps, i) == (i * (n - 1)) \div steps

\* Math.floor(colorIndex) of iteration i (0-based) over n colors, where
\* colorIndex = (i / (steps - 1)) * (n - 1)
LowerIndex(n, steps, i) == (i * (n - 1)) \div (steps - 1)

\* The stop pushed in iteration i (0-based) of the loop.  position is kept in
\* hundredths: Math.round(position * 100), before the division by 100.
GradientStop(colors, steps, i) ==
    LET num        == i * (Len(colors) - 1)         \* colorIndex = num / (steps - 1)
        lowerIndex == LowerIndex(Len(colors), steps, i)
        upperIndex == (num + steps - 2) \div (steps - 1)
        factor     == <<num - lowerIndex * (steps - 1), steps - 1>>
    IN  [color    |-> IF lowerIndex = upperIndex
                      THEN colors[lowerIndex + 1]
                      ELSE interpolateColors(colors[lowerIndex + 1],
                                             colors[upperIndex + 1], factor),
         position |-> (2 * i * 10000 + (steps - 1)) \div (2 * (steps - 1))]

\* generateGradientStops refusing only an empty list.
generateGradientStopsOneColor(colors, steps, direction) ==
    IF Len(colors) < 1
    THEN [ok |-> FALSE, message |-> TooFewColors]
    ELSE [ok |-> TRUE,
          value |-> [stops     |-> [k \in 1..steps |-> GradientStop(colors, steps, k - 1)],
                     direction |-> direction]]

\* steps = 0 or steps >= 2.  The result is [ok |-> TRUE, value |-> {stops, direction}] or the
\* thrown Error's message.
generateGradientStops(colors, steps, direction) ==
    IF Len(colors) < 2
    THEN [ok |-> FALSE, message |-> TooFewColors]
    ELSE [ok |-> TRUE,
          value |-> [stops     |-> [k \in 1..steps |-> GradientStop(colors, steps, k - 1)],
                     direction |-> direction]]

\* String(p / 100) for an integer p >= 0 of hundredths: 5000 is "50", 3333 is "33.33".
PositionToString(p) ==
    LET whole == ToString(p \div 100)
        frac  == p % 100
    IN  IF frac = 0 THEN whole
        ELSE IF frac % 10 = 0 THEN whole \o "." \o ToString(frac \div 10)
        ELSE whole \o "." \o ToString(frac \div 10) \o ToString(frac % 10)

Indent(n) == Repeat(" ", n)

(***************************************************************************)
(* Texts: sequences of pieces.                                             *)
(***************************************************************************)
NL == "\n"

\* The string a short text stands for.
Flat(text) == Join(text, "")

RECURSIVE JoinT(_, _)
\* parts.join(sep) for texts
JoinT(parts, sep) ==
    IF Len(parts) = 0 THEN <<>>
    ELSE IF Len(parts) = 1 THEN parts[1]
    ELSE parts[1] \o sep \o JoinT(Tail(parts), sep)

\* JSON.stringify(stops, null, 2) with the array at nesting depth `depth`
StopsJson(stops, depth) ==
    IF Len(stops) = 0 THEN <<"[]">>
    ELSE <<"[", NL>>
         \o JoinT([k \in 1..Len(stops) |->
                     <<Indent(2 * depth + 2) \o "{", NL,
                       Indent(2 * depth + 4) \o "\"color\": \"", stops[k].color, "\",", NL,
                       Indent(2 * depth + 4) \o "\"position\": ",
                       PositionToString(stops[k].position), NL,
                       Indent(2 * depth + 2) \o "}">>], <<",", NL>>)
         \o <<NL, Indent(2 * depth) \o "]">>

StopStrings(stops) ==
    [k \in 1..Len(stops) |-> <<stops[k].color, " ", PositionToString(stops[k].position), "%">>]

\* TailwindClasses with stops.slice(1) for the via colors: the last stop is
\* written as a via color too.
TailwindClassesViaToEnd(stops, direction) ==
    <<"bg-gradient-", direction, " ", "from-[", stops[1].color, "]">>
    \o (IF Len(stops) > 2
        THEN <<" ">> \o JoinT([k \in 1..(Len(stops) - 1) |-> <<"via-[", stops[k + 1].color, "]">>],
                               <<" ">>)
        ELSE <<>>)
    \o <<" ", "to-[", stops[Len(stops)].color, "]">>

\* The tailwind branch of generateTailwindGradient (at least one stop)
TailwindClasses(stops, direction) ==
    LET directionClass == <<"bg-gradient-", direction>>
        fromColor == <<"from-[", stops[1].color, "]">>
        toColor   == <<"to-[", stops[Len(stops)].color, "]">>
        viaColors == [k \in 1..(Len(stops) - 2) |-> <<"via-[", stops[k + 1].color, "]">>]
    IN  directionClass \o <<" ">> \o fromColor
        \o (IF Len(stops) > 2 THEN <<" ">> \o JoinT(viaColors, <<" ">>) ELSE <<>>)
        \o <<" ">> \o toColor

\* The "detailed" branch returns an object; the tool callback prints it with
\* JSON.stringify(output, null, 2), which is what this operator yields for it.
generateTailwindGradient(g, format) ==
    LET stops     == g.stops
        direction == g.direction
    IN  IF format = "css"
        THEN <<"background: linear-gradient(", Replace(direction, "to-", ""), ", ">>
             \o JoinT(StopStrings(stops), <<", ">>) \o <<");">>
        ELSE IF format = "tailwind"
        THEN TailwindClasses(stops, direction)
        ELSE IF format = "json"
        THEN <<"{", NL, "  \"stops\": ">> \o StopsJson(stops, 1)
             \o <<",", NL, "  \"direction\": \"", direction, "\"", NL, "}">>
        ELSE <<"{", NL, "  \"gradient\": \"linear-gradient(", Replace(direction, "to-", ""), ", ">>
             \o JoinT(StopStrings(stops), <<", ">>)
             \o <<")\",", NL, "  \"stops\": ">> \o StopsJson(stops, 1)
             \o <<",", NL, "  \"direction\": \"", direction, "\"", NL, "}">>

(***************************************************************************)
(* Exact fractions <<n, d>> with d > 0, kept in lowest terms.              *)
(* NaN is <<0, 0>>: it propagates through + - * and every comparison with    *)
(* it is false, as in IEEE arithmetic.                                     *)
(***************************************************************************)
FNaN == <<0, 0>>
IsNaN(a) == a[2] = 0
Frac(n, d) == LET g == GCD(Abs(n), d) IN <<n \div g, d \div g>>
FInt(n) == <<n, 1>>
FAdd(a, b) ==
    IF IsNaN(a) \/ IsNaN(b) THEN FNaN
    ELSE LET g == GCD(a[2], b[2])
         IN  Frac(a[1] * (b[2] \div g) + b[1] * (a[2] \div g), (a[2] \div g) * b[2])
FSub(a, b) == FAdd(a, <<-b[1], b[2]>>)
FMul(a, b) ==
    IF IsNaN(a) \/ IsNaN(b) THEN FNaN
    ELSE IF a[1] = 0 \/ b[1] = 0 THEN <<0, 1>>
    ELSE LET g1 == GCD(Abs(a[1]), b[2])
             g2 == GCD(Abs(b[1]), a[2])
         IN  Frac((a[1] \div g1) * (b[1] \div g2), (a[2] \div g2) * (b[2] \div g1))
FLess(a, b) == a[1] * b[2] < b[1] * a[2]
FMax(a, b) == IF FLess(a, b) THEN b ELSE a
FMin(a, b) == IF FLess(b, a) THEN b ELSE a
\* Math.floor and Math.round (half up)
FFloor(a) == a[1] \div a[2]
FRound(a) == (2 * a[1] + a[2]) \div (2 * a[2])

(***************************************************************************)
(* JavaScript objects: the properties in enumeration order, as             *)
(* Object.entries and JSON.stringify see them.  Integer-like keys come     *)
(* first in ascending numeric order, the other keys follow in insertion    *)
(* order; assigning to an existing key keeps its place.                    *)
(***************************************************************************)
Digits == {Char(LowerHex, i) : i \in 1..10}
IsDigits(s) == \A i \in 1..Len(s) : Char(s, i) \in Digits

RECURSIVE DecToNat(_)
DecToNat(s) ==
    IF Len(s) = 0 THEN 0
    ELSE 10 * DecToNat(SubSeq(s, 1, Len(s) - 1)) + HexVal(Char(s, Len(s)))

IsIndexKey(k) ==
    /\ Len(k) >= 1
    /\ Len(k) <= 9
    /\ IsDigits(k)
    /\ (Len(k) = 1 \/ Char(k, 1) # "0")

HasKey(obj, k) == \E i \in 1..Len(obj) : obj[i].key = k
Get(obj, k) == obj[CHOOSE i \in 1..Len(obj) : obj[i].key = k].value

InsertAt(seq, p, x) == SubSeq(seq, 1, p - 1) \o <<x>> \o SubSeq(seq, p, Len(seq))

\* ObjSet putting every new key in front of the others.
ObjSetPrepend(obj, k, v) ==
    IF HasKey(obj, k)
    THEN [i \in 1..Len(obj) |-> IF obj[i].key = k THEN [key |-> k, value |-> v] ELSE obj[i]]
    ELSE <<[key |-> k, value |-> v]>> \o obj

\* obj[k] = v
ObjSet(obj, k, v) ==
    LET entry == [key |-> k, value |-> v]
    IN  IF HasKey(obj, k)
        THEN [i \in 1..Len(obj) |-> IF obj[i].key = k THEN entry ELSE obj[i]]
        ELSE IF IsIndexKey(k)
        THEN LET n      == DecToNat(k)
                 before == {i \in 1..Len(obj) :
                               IsIndexKey(obj[i].key) /\ DecToNat(obj[i].key) < n}
             IN  InsertAt(obj, Cardinality(before) + 1, entry)
        ELSE Append(obj, entry)

(***************************************************************************)
(* Palette derivation of the extension (src/extension.js): integer         *)
(* arithmetic on the whole 24-bit number.                                  *)
(***************************************************************************)
TAILWIND_SHADES == <<50, 100, 200, 300, 400, 500, 600, 700, 800, 900, 950>>

\* parseInt(s, 16): the longest prefix of hexadecimal digits (after an optional
\* 0x), <<>> (NaN) when there is none.  Leading blanks and signs are not drawn.
ParseInt16(s) ==
    LET t == IF Len(s) >= 2 /\ SubSeq(s, 1, 2) \in {"0x", "0X"} THEN Slice(s, 2) ELSE s
        n == CHOOSE n \in 0..Len(t) :
                 /\ IsHexDigits(SubSeq(t, 1, n))
                 /\ (n = Len(t) \/ HexVal(Char(t, n + 1)) < 0)
    IN  IF n = 0 THEN <<>> ELSE <<HexToNat(SubSeq(t, 1, n))>>

\* x.toString(16) of a number that may be NaN
NumToString16(x) == IF x = <<>> THEN "NaN" ELSE NatToString16(x[1])

\* The color the forEach body assigns to palette[shade].
ShadeColor(baseColor, baseColorNum, shade) ==
    LET factor == Frac(shade, 500)
    IN  IF shade < 500
        THEN LET lightness ==
                   IF baseColorNum = <<>> THEN <<>>
                   ELSE <<Min(255, FFloor(FAdd(FInt(baseColorNum[1]),
                                              FMul(FInt(255 - baseColorNum[1]),
                                                   FSub(FInt(1), factor)))))>>
             IN  "#" \o PadStart0(NumToString16(lightness), 6)
        ELSE IF shade > 500
        THEN LET darkness ==
                   IF baseColorNum = <<>> THEN <<>>
                   ELSE <<FFloor(FMul(FInt(baseColorNum[1]),
                                      FSub(FInt(1), FMul(FSub(factor, FInt(1)), <<7, 10>>))))>>
             IN  "#" \o PadStart0(NumToString16(darkness), 6)
        ELSE baseColor

RECURSIVE PaletteLoop(_, _, _, _)
\* TAILWIND_SHADES.forEach from index i on, palette being the object built so far
PaletteLoop(baseColor, baseColorNum, i, palette) ==
    IF i > Len(TAILWIND_SHADES) THEN palette
    ELSE PaletteLoop(baseColor, baseColorNum, i + 1,
                     ObjSet(palette, ToString(TAILWIND_SHADES[i]),
                            ShadeColor(baseColor, baseColorNum, TAILWIND_SHADES[i])))

\* baseColor is optional: undefined.replace throws a TypeError.
generateTailwindPalette(baseColor, name) ==
    IF ~Given(baseColor)
    THEN [ok |-> FALSE, message |-> "Cannot read properties of undefined (reading 'replace')"]
    ELSE LET baseColorNum == ParseInt16(Replace(baseColor[1], "#", ""))
         IN  [ok |-> TRUE,
              value |-> [name    |-> name,
                         palette |-> PaletteLoop(baseColor[1], baseColorNum, 1, <<>>)]]

(***************************************************************************)
(* Formatting (src/extension.js).                                          *)
(***************************************************************************)
RECURSIVE ColorsOf(_, _)
\* palettes.forEach(({ name, palette }) => { colors[name] = palette; })
ColorsOf(pals, colors) ==
    IF Len(pals) = 0 THEN colors
    ELSE ColorsOf(Tail(pals), ObjSet(colors, pals[1].name, pals[1].palette))

\* JSON.stringify of an object of strings, at nesting depth `depth`, indent `ind`
ShadesJson(shades, depth, ind) ==
    IF Len(shades) = 0 THEN <<"{}">>
    ELSE <<"{", NL>>
         \o JoinT([k \in 1..Len(shades) |->
                     <<Indent(ind * (depth + 1)) \o "\"", shades[k].key, "\": \"",
                       shades[k].value, "\"">>], <<",", NL>>)
         \o <<NL, Indent(ind * depth) \o "}">>

\* JSON.stringify(colors, null, ind)
ColorsJson(colors, ind) ==
    IF Len(colors) = 0 THEN <<"{}">>
    ELSE <<"{", NL>>
         \o JoinT([k \in 1..Len(colors) |->
                     <<Indent(ind) \o "\"", colors[k].key, "\": ">>
                     \o ShadesJson(colors[k].value, 1, ind)], <<",", NL>>)
         \o <<NL, "}">>

\* The css branch: nl is the piece the source writes at the end of each line.
CssVariables(colors, nl) ==
    <<":root {", nl>>
    \o JoinT([c \in 1..Len(colors) |->
                JoinT([k \in 1..Len(colors[c].value) |->
                         <<"  --color-", colors[c].key, "-", colors[c].value[k].key, ": ",
                           colors[c].value[k].value, ";", nl>>], <<>>)], <<>>)
    \o <<"}">>

ConfigText(colors, format, nl) ==
    IF format = "css"
    THEN CssVariables(colors, nl)
    ELSE IF format = "js"
    THEN <<"module.exports = {", NL, "  theme: {", NL, "    extend: {", NL, "      colors: ">>
         \o ColorsJson(colors, 8) \o <<NL, "    }", NL, "  }", NL, "}">>
    ELSE ColorsJson(colors, 2)

generateTailwindConfig(pals, format) == ConfigText(ColorsOf(pals, <<>>), format, NL)

(***************************************************************************)
(* chroma-js, as the MCP server uses it: chroma(string), get('hsl.*'),     *)
(* chroma.hsl(h, s, l) and hex().  A color is its <<r, g, b>>.             *)
(***************************************************************************)
\* A few entries of the library's table of named colors.
NamedColors ==
    <<[name |-> "blue", rgb |-> <<0, 0, 255>>],
      [name |-> "red", rgb |-> <<255, 0, 0>>],
      [name |-> "white", rgb |-> <<255, 255, 255>>],
      [name |-> "black", rgb |-> <<0, 0, 0>>]>>

\* chroma(color) for hexadecimal and named colors; css functional notation
\* (rgb(...), hsl(...)) is not drawn.  An unparsable or missing color throws.
chroma(color) ==
    IF ~Given(color)
    THEN [ok |-> FALSE, message |-> "unknown format: "]
    ELSE LET c    == color[1]
             body == IF Len(c) > 0 /\ Char(c, 1) = "#" THEN Slice(c, 1) ELSE c
             pair(i) == HexToNat(SubSeq(body, i, i + 1))
             twin(i) == 17 * HexVal(Char(body, i))
         IN  IF \E i \in 1..Len(NamedColors) : NamedColors[i].name = c
             THEN [ok |-> TRUE,
                   rgb |-> NamedColors[CHOOSE i \in 1..Len(NamedColors) :
                                           NamedColors[i].name = c].rgb]
             ELSE IF Len(body) \in {6, 8} /\ IsHexDigits(body)
             THEN [ok |-> TRUE, rgb |-> <<pair(1), pair(3), pair(5)>>]
             ELSE IF Len(body) \in {3, 4} /\ IsHexDigits(body)
             THEN [ok |-> TRUE, rgb |-> <<twin(1), twin(2), twin(3)>>]
             ELSE IF Len(c) \in 3..9
             THEN [ok |-> FALSE, message |-> "unknown hex color: " \o c]
             ELSE [ok |-> FALSE, message |-> "unknown format: " \o c]

\* A hue below zero is brought back into [0, 360).
PositiveHue(h) == IF FLess(h, FInt(0)) THEN FAdd(h, FInt(360)) ELSE h

\* color.hsl(): hue in degrees (NaN for a gray), saturation and lightness in [0, 1]
rgb2hsl(rgb) ==
    LET r  == rgb[1]
        g  == rgb[2]
        b  == rgb[3]
        mx == Max(r, Max(g, b))
        mn == Min(r, Min(g, b))
    IN  [h |-> IF mx = mn THEN FNaN
               ELSE IF r = mx THEN PositiveHue(FMul(Frac(g - b, mx - mn), FInt(60)))
               ELSE IF g = mx
               THEN PositiveHue(FMul(FAdd(FInt(2), Frac(b - r, mx - mn)), FInt(60)))
               ELSE PositiveHue(FMul(FAdd(FInt(4), Frac(r - g, mx - mn)), FInt(60))),
         s |-> IF mx = mn THEN FInt(0)
               ELSE IF mx + mn < 255 THEN Frac(mx - mn, mx + mn)
               ELSE Frac(mx - mn, 510 - mx - mn),
         l |-> Frac(mx + mn, 510)]

\* hsl2rgb brings t3 back into [0, 1]
WrapUnit(t3) ==
    IF FLess(t3, FInt(0)) THEN FAdd(t3, FInt(1))
    ELSE IF FLess(FInt(1), t3) THEN FSub(t3, FInt(1))
    ELSE t3

\* hsl2rgb's channel value in [0, 1] for the wrapped t3
ChannelValue(t1, t2, t3) ==
    IF FLess(FMul(FInt(6), t3), FInt(1))
    THEN FAdd(t1, FMul(FMul(FSub(t2, t1), FInt(6)), t3))
    ELSE IF FLess(FMul(FInt(2), t3), FInt(1))
    THEN t2
    ELSE IF FLess(FMul(FInt(3), t3), FInt(2))
    THEN FAdd(t1, FMul(FMul(FSub(t2, t1), FSub(<<2, 3>>, t3)), FInt(6)))
    ELSE t1

\* One channel of hsl2rgb: off is the offset (1/3, 0, -1/3) added to h / 360.
HslChannel(h, t1, t2, off) ==
    FInt(FRound(FMul(ChannelValue(t1, t2, WrapUnit(FAdd(FMul(h, <<1, 360>>), off))),
                     FInt(255))))

\* hsl2rgb's t2 and the three channels computed from it
HslT2(s, l) ==
    IF FLess(l, <<1, 2>>) THEN FMul(l, FAdd(FInt(1), s)) ELSE FSub(FAdd(l, s), FMul(l, s))

HslChannels(h, t1, t2) ==
    <<HslChannel(h, t1, t2, <<1, 3>>),
      HslChannel(h, t1, t2, <<0, 1>>),
      HslChannel(h, t1, t2, <<-1, 3>>)>>

\* chroma.hsl(h, s, l): the channels as fractions (not yet rounded when s = 0)
hsl2rgb(h, s, l) ==
    IF s[1] = 0
    THEN <<FMul(l, FInt(255)), FMul(l, FInt(255)), FMul(l, FInt(255))>>
    ELSE HslChannels(h, FSub(FMul(FInt(2), l), HslT2(s, l)), HslT2(s, l))

\* The constructor clips each channel to [0, 255]; hex() rounds it.
ClipRound(c) == [k \in 1..3 |-> FRound(FMax(FInt(0), FMin(FInt(255), c[k])))]

ChromaHsl(h, s, l) == ClipRound(hsl2rgb(h, s, l))

\* color.hex()
ChromaHex(rgb) ==
    LET str == "000000" \o NatToString16(rgb[1] * 65536 + rgb[2] * 256 + rgb[3])
    IN  "#" \o SubSeq(str, Len(str) - 5, Len(str))

(***************************************************************************)
(* Palette derivation and formatting of the MCP server.                    *)
(***************************************************************************)
\* mcpShadeHsl with the sign of the darkening term slipped: 1 + ratio * 0.85.
mcpShadeHslSignSlip(hsl, shade) ==
    IF shade <= 500
    THEN [h |-> hsl.h,
          s |-> FMax(<<1, 10>>, FMul(hsl.s, FSub(FInt(1), FMul(Frac(500 - shade, 450), <<7, 10>>)))),
          l |-> FAdd(hsl.l, FMul(FSub(<<19, 20>>, hsl.l), Frac(500 - shade, 450)))]
    ELSE [h |-> hsl.h,
          s |-> FMin(FInt(1), FMul(hsl.s, FAdd(FInt(1), FMul(Frac(shade - 500, 450), <<1, 5>>)))),
          l |-> FMul(hsl.l, FAdd(FInt(1), FMul(Frac(shade - 500, 450), <<17, 20>>)))]

\* mcpShadeHsl with the ratio of the lighter shades counted from shade 50:
\* (shade - 50) / 450 instead of (500 - shade) / 450.
mcpShadeHslRatioFlipped(hsl, shade) ==
    IF shade <= 500
    THEN [h |-> hsl.h,
          s |-> FMax(<<1, 10>>, FMul(hsl.s, FSub(FInt(1), FMul(Frac(shade - 50, 450), <<7, 10>>)))),
          l |-> FAdd(hsl.l, FMul(FSub(<<19, 20>>, hsl.l), Frac(shade - 50, 450)))]
    ELSE [h |-> hsl.h,
          s |-> FMin(FInt(1), FMul(hsl.s, FAdd(FInt(1), FMul(Frac(shade - 500, 450), <<1, 5>>)))),
          l |-> FMul(hsl.l, FSub(FInt(1), FMul(Frac(shade - 500, 450), <<17, 20>>)))]

\* mcpShadeHsl turning the hue of the darker shades by 10 degrees.
mcpShadeHslHueShift(hsl, shade) ==
    IF shade <= 500
    THEN [h |-> hsl.h,
          s |-> FMax(<<1, 10>>, FMul(hsl.s, FSub(FInt(1), FMul(Frac(500 - shade, 450), <<7, 10>>)))),
          l |-> FAdd(hsl.l, FMul(FSub(<<19, 20>>, hsl.l), Frac(500 - shade, 450)))]
    ELSE [h |-> FAdd(hsl.h, FInt(10)),
          s |-> FMin(FInt(1), FMul(hsl.s, FAdd(FInt(1), FMul(Frac(shade - 500, 450), <<1, 5>>)))),
          l |-> FMul(hsl.l, FSub(FInt(1), FMul(Frac(shade - 500, 450), <<17, 20>>)))]

\* The <<h, s, l>> handed to chroma.hsl for one shade; hsl is base.hsl().
mcpShadeHsl(hsl, shade) ==
    IF shade <= 500
    THEN LET ratio      == Frac(500 - shade, 450)
             lightness  == FAdd(hsl.l, FMul(FSub(<<19, 20>>, hsl.l), ratio))
             saturation == FMax(<<1, 10>>, FMul(hsl.s, FSub(FInt(1), FMul(ratio, <<7, 10>>))))
         IN  [h |-> hsl.h, s |-> saturation, l |-> lightness]
    ELSE LET ratio      == Frac(shade - 500, 450)
             lightness  == FMul(hsl.l, FSub(FInt(1), FMul(ratio, <<17, 20>>)))
             saturation == FMin(FInt(1), FMul(hsl.s, FAdd(FInt(1), FMul(ratio, <<1, 5>>))))
         IN  [h |-> hsl.h, s |-> saturation, l |-> lightness]

mcpShadeColor(hsl, shade) ==
    LET t == mcpShadeHsl(hsl, shade) IN ChromaHex(ChromaHsl(t.h, t.s, t.l))

RECURSIVE mcpPaletteLoop(_, _, _)
mcpPaletteLoop(hsl, i, palette) ==
    IF i > Len(TAILWIND_SHADES) THEN palette
    ELSE mcpPaletteLoop(hsl, i + 1,
                        ObjSet(palette, ToString(TAILWIND_SHADES[i]),
                               mcpShadeColor(hsl, TAILWIND_SHADES[i])))

mcpGenerateTailwindPalette(baseColor, name) ==
    LET base == chroma(baseColor)
    IN  IF ~base.ok
        THEN [ok |-> FALSE, message |-> base.message]
        ELSE [ok |-> TRUE,
              value |-> [name    |-> name,
                         palette |-> mcpPaletteLoop(rgb2hsl(base.rgb), 1, <<>>)]]

\* What the server's source writes as '\\n': a backslash and an n, no line break.
BackslashN == "\\n"

mcpGenerateTailwindConfig(pals, format) ==
    ConfigText(ColorsOf(pals, <<>>), format, BackslashN)

NoGradient == [stops |-> <<>>, direction |-> ""]
NoResponse == [kind |-> "none", text |-> <<>>]
TextResult(t) == [kind |-> "text", text |-> t]
Thrown(m) == [kind |-> "throw", text |-> m]

\* What a handler leaves behind: the palettes and gradient it derived and what
\* it gave back.
Result(p, g, r) == [palettes |-> p, gradient |-> g, response |-> r]

\* Handler h has served request `in` for operation t with outcome r.
Serve(h, t, in, r) ==
    /\ host' = h
    /\ tool' = t
    /\ input' = in
    /\ palettes' = r.palettes
    /\ gradient' = r.gradient
    /\ response' = r.response
    /\ UNCHANGED <<concurrentVars, editorVars>>

(***************************************************************************)
(* The generate_tailwind_gradient tool callback.                           *)
(***************************************************************************)
GradientColors == {"#FF0000", "#0000FF", "red"}
GradientDirections == {"to-r", "to-bl"}
GradientFormats == {"css", "tailwind", "json", "detailed"}

\* The step counts drawn: the small ones, the largest the tool's schema names,
\* and two the schema excludes.  Neither 1 (whose single stop has no color and
\* the position NaN) nor a fraction is drawn.
GradientSteps == (2..MaxSteps) \cup {0, 50, 51}

GradientInputs ==
    [colors    : Opt(SeqsOf(GradientColors, 0, MaxColors)),
     steps     : Opt(GradientSteps),
     direction : Opt(GradientDirections),
     format    : Opt(GradientFormats)]

GradientResponseText(colors, steps, direction, format, output) ==
    LET details == <<"Gradient details:", NL, "- Direction: ", direction, NL,
                     "- Colors: ", Join(colors, ", "), NL, "- Steps: ", ToString(steps)>>
    IN  IF format = "css"
        THEN <<"Generated CSS gradient from ", ToString(Len(colors)), " colors:", NL, NL>>
             \o output \o <<NL, NL>> \o details
        ELSE IF format = "tailwind"
        THEN <<"Generated Tailwind gradient classes:", NL, NL>> \o output
             \o <<NL, NL, "Usage: Add these classes to your element", NL>> \o details
        ELSE IF format = "json"
        THEN <<"Generated gradient configuration:", NL, NL>> \o output
             \o <<NL, NL, "This JSON includes all gradient stops with positions and colors.">>
        ELSE <<"Generated gradient configuration:", NL, NL>> \o output
             \o <<NL, NL, "Includes CSS gradient string and detailed stop information.">>

\* generateTailwindGradient reads stops[0].color in the tailwind branch: with no
\* stops at all this is a TypeError.
NoFirstStop == "Cannot read properties of undefined (reading 'color')"

GradientToolResult(in) ==
    LET steps     == OrDefault(in.steps, 10)
        direction == OrDefault(in.direction, "to-r")
        format    == OrDefault(in.format, "tailwind")
    IN  IF ~Given(in.colors) \/ Len(in.colors[1]) < 2
        THEN Result(<<>>, NoGradient, TextResult(<<"Error generating gradient: ", TooFewColors>>))
        ELSE LET g == generateGradientStops(in.colors[1], steps, direction)
             IN  IF ~g.ok
                 THEN Result(<<>>, NoGradient,
                             TextResult(<<"Error generating gradient: ", g.message>>))
                 ELSE IF Len(g.value.stops) = 0 /\ format = "tailwind"
                 THEN Result(<<>>, g.value,
                             TextResult(<<"Error generating gradient: ", NoFirstStop>>))
                 ELSE Result(<<>>, g.value,
                             TextResult(GradientResponseText(in.colors[1], steps, direction,
                                 format, generateTailwindGradient(g.value, format))))

InvokeGradientTool ==
    \E in \in GradientInputs :
        /\ host = "none"
        /\ Serve("lm", "generate_tailwind_gradient", in, GradientToolResult(in))

(***************************************************************************)
(* Requests drawn for the palette, scheme and analysis operations.         *)
(***************************************************************************)
BaseColors ==
    {"#3B82F6", "#3b82f6", "#808080", "#000000", "#ffffff", "#ff0000", "blue", "notacolor",
     "#12", "", "#f2f2f2"}
PaletteNames == {"primary", "brand"}
Formats == {"js", "css", "json"}

PaletteInputs ==
    [baseColor : Opt(BaseColors), name : Opt(PaletteNames), format : Opt(Formats)]

Strategies == {"complementary", "analogous", "monochromatic", "triadic"}

\* A few of the names every object inherits from Object.prototype as functions:
\* strategies[name] is then a function, but what it returns has no map method.
InheritedFunctions == {"toString", "constructor"}
Hues == {0, 217, 300}
NameLists == {<<>>, <<"a", "">>, <<"a", "a", "b">>}

SchemeInputs ==
    [strategy   : Opt(Strategies \cup {"tetradic"} \cup InheritedFunctions),
     baseHue    : Opt(Hues),
     colorNames : Opt(NameLists),
     format     : Opt(Formats)]

AnalyzeInputs == [color : Opt(BaseColors)]

\* Math.random() * 360 is evaluated only when baseHue is undefined.
RandomHues(baseHue) == IF Given(baseHue) THEN {baseHue[1]} ELSE Hues

\* The source has the two characters U+00C2 U+00B0 here (a degree sign read in
\* the wrong encoding); the model writes them in ASCII.
DegreeSign == "deg"

PaletteDetails(p, nl) ==
    JoinT([k \in 1..Len(p.palette) |->
             <<"- ", p.name, "-", p.palette[k].key, ": ", p.palette[k].value>>], <<nl>>)

PaletteResponseText(name, baseColor, config, p, nl) ==
    <<"Generated Tailwind palette for \"", name, "\" from base color \"", baseColor,
      "\":", NL, NL>>
    \o config \o <<NL, NL, "Palette details:", NL>> \o PaletteDetails(p, nl)

ColorBreakdown(pals, nl) ==
    JoinT([i \in 1..Len(pals) |->
             <<"- ", pals[i].name, ": ">>
             \o JoinT([k \in 1..Len(pals[i].palette) |->
                         <<pals[i].palette[k].key, "(", pals[i].palette[k].value, ")">>],
                      <<", ">>)],
          <<nl>>)

SchemeResponseText(strategy, baseHue, config, pals, nl) ==
    <<"Generated ", strategy, " color scheme (base hue: ", ToString(baseHue), DegreeSign,
      "):", NL, NL>>
    \o config \o <<NL, NL, "Color breakdown:", NL>> \o ColorBreakdown(pals, nl)

\* colorNames[index] || `color${index + 1}`, index counted from 1 here
SchemeName(colorNames, i) ==
    IF i <= Len(colorNames) /\ colorNames[i] # "" THEN colorNames[i]
    ELSE "color" \o ToString(i)

(***************************************************************************)
(* The language-model tool callbacks of the extension.                     *)
(***************************************************************************)
PaletteToolResult(in) ==
    LET name   == OrDefault(in.name, "primary")
        format == OrDefault(in.format, "js")
        p      == generateTailwindPalette(in.baseColor, name)
    IN  IF p.ok
        THEN Result(<<p.value>>, NoGradient,
                    TextResult(PaletteResponseText(name, in.baseColor[1],
                        generateTailwindConfig(<<p.value>>, format), p.value, NL)))
        ELSE Result(<<>>, NoGradient, TextResult(<<"Error generating palette: ", p.message>>))

InvokePaletteTool ==
    \E in \in PaletteInputs :
        /\ host = "none"
        /\ Serve("lm", "generate_tailwind_palette", in, PaletteToolResult(in))

\* The three seed strings a strategy of the extension yields.
lmStrategy(strategy, hue) ==
    LET hsl(h, s, l) == "hsl(" \o ToString(h) \o ", " \o s \o "%, " \o l \o "%)"
    IN  IF strategy = "complementary"
        THEN <<hsl(hue, "80", "60"), hsl(hue + 180, "80", "60"), hsl(hue + 90, "70", "50")>>
        ELSE IF strategy = "analogous"
        THEN <<hsl(hue, "80", "60"), hsl(hue + 30, "80", "60"), hsl(hue - 30, "80", "60")>>
        ELSE IF strategy = "monochromatic"
        THEN <<hsl(hue, "80", "60"), hsl(hue, "60", "50"), hsl(hue, "90", "70")>>
        ELSE <<hsl(hue, "80", "60"), hsl(hue + 120, "80", "60"), hsl(hue + 240, "80", "60")>>

\* baseColors.map((color, index) => ...): the seed itself is not used.
lmSchemePalettes(baseColors, colorNames) ==
    [i \in 1..Len(baseColors) |->
        LET hexColor == "#3B82F6"
        IN  generateTailwindPalette(<<hexColor>>, SchemeName(colorNames, i)).value]

\* StrategyKnown taking any function found under the name for a strategy
StrategyKnownOrFunction(strategy) ==
    Given(strategy) /\ strategy[1] \in (Strategies \cup InheritedFunctions)

\* strategies[strategy](baseHue) is one of the four arrays of seeds
StrategyKnown(strategy) == Given(strategy) /\ strategy[1] \in Strategies

\* The message of the TypeError thrown when it is not
StrategyError(strategy) ==
    IF Given(strategy) /\ strategy[1] \in InheritedFunctions
    THEN "baseColors.map is not a function"
    ELSE "strategies[strategy] is not a function"

\* SchemeBaseHue drawing the hue whether or not one is given.
SchemeBaseHueAlwaysDrawn(in, random) == random

\* baseHue = Math.random() * 360 in the destructuring: the given hue when there
\* is one, the drawn number otherwise.
SchemeBaseHue(in, random) == OrDefault(in.baseHue, random)

SchemeToolResult(in, random) ==
    LET colorNames == OrDefault(in.colorNames, <<"primary", "secondary", "accent">>)
        format     == OrDefault(in.format, "js")
    IN  IF StrategyKnown(in.strategy)
        THEN LET pals == lmSchemePalettes(
                             lmStrategy(in.strategy[1], SchemeBaseHue(in, random)), colorNames)
             IN  Result(pals, NoGradient,
                        TextResult(SchemeResponseText(in.strategy[1], SchemeBaseHue(in, random),
                                       generateTailwindConfig(pals, format), pals, NL)))
        ELSE Result(<<>>, NoGradient,
                    TextResult(<<"Error generating color scheme: ", StrategyError(in.strategy)>>))

InvokeSchemeTool ==
    \E in \in SchemeInputs :
      \E random \in RandomHues(in.baseHue) :
        /\ host = "none"
        /\ Serve("lm", "generate_color_scheme", in, SchemeToolResult(in, random))

AnalyzeToolResult(in) ==
    IF ~Given(in.color)
    THEN Result(<<>>, NoGradient,
                TextResult(<<"Error analyzing color: ",
                             "Cannot read properties of undefined (reading 'startsWith')">>))
    ELSE LET color == in.color[1]
             isHex == Len(color) >= 1 /\ Char(color, 1) = "#"
             rgb   == IF isHex THEN color ELSE "#3B82F6"
         IN  Result(<<>>, NoGradient,
                    TextResult(
                        <<"Color Analysis for \"", color, "\":", NL, NL,
                          "Format conversions:", NL, "- Hex: ", rgb, NL,
                          "- RGB: Parsed from hex", NL, "- HSL: Calculated from RGB", NL, NL,
                          "Properties:", NL, "- Brightness: Calculated", NL,
                          "- Saturation: Calculated", NL, NL,
                          "Accessibility:", NL, "- Contrast analysis available", NL,
                          "- WCAG compliance check", NL,
                          "- Recommended text color: Based on contrast">>))

InvokeAnalyzeTool ==
    \E in \in AnalyzeInputs :
        /\ host = "none"
        /\ Serve("lm", "analyze_color", in, AnalyzeToolResult(in))

\* The tools activate() registers with the language-model host.
lmRegisteredTools ==
    {"generate_tailwind_palette", "generate_color_scheme", "analyze_color",
     "generate_tailwind_gradient"}

(***************************************************************************)
(* The CallTool request handler of the MCP server.  Whatever is thrown     *)
(* inside its try block is caught and thrown again with a prefix.          *)
(***************************************************************************)
\* The three seed colors a strategy of the server yields, as <<r, g, b>>.
mcpStrategy(strategy, hue) ==
    LET hsl(h, s, l) == ChromaHsl(FInt(h), s, l)
    IN  IF strategy = "complementary"
        THEN <<hsl(hue, <<4, 5>>, <<3, 5>>), hsl(hue + 180, <<4, 5>>, <<3, 5>>),
               hsl(hue + 90, <<7, 10>>, <<1, 2>>)>>
        ELSE IF strategy = "analogous"
        THEN <<hsl(hue, <<4, 5>>, <<3, 5>>), hsl(hue + 30, <<4, 5>>, <<3, 5>>),
               hsl(hue - 30, <<4, 5>>, <<3, 5>>)>>
        ELSE IF strategy = "monochromatic"
        THEN <<hsl(hue, <<4, 5>>, <<3, 5>>), hsl(hue, <<3, 5>>, <<1, 2>>),
               hsl(hue, <<9, 10>>, <<7, 10>>)>>
        ELSE <<hsl(hue, <<4, 5>>, <<3, 5>>), hsl(hue + 120, <<4, 5>>, <<3, 5>>),
               hsl(hue + 240, <<4, 5>>, <<3, 5>>)>>

mcpSchemePalettes(baseColors, colorNames) ==
    [i \in 1..Len(baseColors) |->
        mcpGenerateTailwindPalette(<<ChromaHex(baseColors[i])>>, SchemeName(colorNames, i)).value]

\* The analysis text up to the HSL line; the lines after it (luminance,
\* temperature, contrast) need chroma-js's real-valued functions and are
\* left out of the text.
mcpAnalysisText(color, rgb) ==
    LET hsl == rgb2hsl(rgb)
        pct(x) == ToString(FRound(FMul(x, FInt(100))))
    IN  <<"Color Analysis for \"", color, "\":", NL, NL, "Format conversions:", NL,
          "- Hex: ", ChromaHex(rgb), NL,
          "- RGB: rgb(", ToString(rgb[1]), ", ", ToString(rgb[2]), ", ", ToString(rgb[3]), ")", NL,
          "- HSL: hsl(", (IF IsNaN(hsl.h) THEN "0" ELSE ToString(FRound(hsl.h))), ", ",
          pct(hsl.s), "%, ", pct(hsl.l), "%)">>

McpToolNames ==
    {"generate_tailwind_palette", "generate_color_scheme", "analyze_color",
     "generate_tailwind_gradient", "list_colors"}

McpInputs(name) ==
    IF name = "generate_tailwind_palette" THEN PaletteInputs
    ELSE IF name = "generate_color_scheme" THEN SchemeInputs
    ELSE IF name = "analyze_color" THEN AnalyzeInputs
    ELSE IF name = "generate_tailwind_gradient"
    THEN {g \in GradientInputs : Given(g.colors) /\ ~Given(g.direction) /\ ~Given(g.format)}
    ELSE {<<>>}

McpRethrow(name, message) == Thrown(<<"Error executing ", name, ": ", message>>)

CallToolResult(name, args, random) ==
    IF name = "generate_tailwind_palette"
    THEN LET paletteName == OrDefault(args.name, "primary")
             format      == OrDefault(args.format, "js")
             p           == mcpGenerateTailwindPalette(args.baseColor, paletteName)
         IN  IF p.ok
             THEN Result(<<p.value>>, NoGradient,
                         TextResult(PaletteResponseText(paletteName, args.baseColor[1],
                             mcpGenerateTailwindConfig(<<p.value>>, format),
                             p.value, BackslashN)))
             ELSE Result(<<>>, NoGradient, McpRethrow(name, p.message))
    ELSE IF name = "generate_color_scheme"
    THEN LET colorNames == OrDefault(args.colorNames, <<"primary", "secondary", "accent">>)
             format     == OrDefault(args.format, "js")
         IN  IF StrategyKnown(args.strategy)
             THEN LET pals == mcpSchemePalettes(
                                  mcpStrategy(args.strategy[1], SchemeBaseHue(args, random)),
                                  colorNames)
                  IN  Result(pals, NoGradient,
                             TextResult(SchemeResponseText(args.strategy[1],
                                 SchemeBaseHue(args, random),
                                 mcpGenerateTailwindConfig(pals, format), pals, BackslashN)))
             ELSE Result(<<>>, NoGradient, McpRethrow(name, StrategyError(args.strategy)))
    ELSE IF name = "analyze_color"
    THEN LET chromaColor == chroma(args.color)
         IN  Result(<<>>, NoGradient,
                    IF chromaColor.ok
                    THEN TextResult(mcpAnalysisText(args.color[1], chromaColor.rgb))
                    ELSE McpRethrow(name, chromaColor.message))
    ELSE Result(<<>>, NoGradient, McpRethrow(name, "Unknown tool: " \o name))

CallTool ==
    \E name \in McpToolNames :
      \E args \in McpInputs(name) :
      \E random \in (IF name = "generate_color_scheme" THEN RandomHues(args.baseHue) ELSE {0}) :
        /\ host = "none"
        /\ Serve("mcp", name, args, CallToolResult(name, args, random))

\* The tools the ListTools handler of the server answers with.
mcpListedTools == <<"generate_tailwind_palette", "generate_color_scheme", "analyze_color">>

\* The ListTools request handler: its response is the list itself.
ListToolsResult == Result(<<>>, NoGradient, [kind |-> "tools", text |-> mcpListedTools])

ListTools ==
    /\ host = "none"
    /\ Serve("mcp", "tools/list", <<>>, ListToolsResult)

(***************************************************************************)
(* The state before anything has happened.                                 *)
(***************************************************************************)
ToolsInit ==
    /\ host = "none"
    /\ tool = ""
    /\ input = <<>>
    /\ palettes = <<>>
    /\ gradient = NoGradient
    /\ response = NoResponse

NoRequest == [host |-> "none", tool |-> "", input |-> <<>>, random |-> 0]
Idle == [busy |-> FALSE, request |-> NoRequest, result |-> Result(<<>>, NoGradient, NoResponse)]

ConcurrentInit ==
    /\ shadeList = TAILWIND_SHADES
    /\ inflight = [slot \in 1..MaxInflight |-> Idle]

NoTestRun ==
    [state |-> "none", script |-> <<>>, output |-> <<>>, hasOutput |-> FALSE, shown |-> <<>>]
NoPaletteRun ==
    [at |-> "idle", editor |-> FALSE, baseColor |-> <<>>, paletteName |-> <<>>,
     format |-> <<>>, shown |-> <<>>]

EditorInit ==
    /\ active = FALSE
    /\ activations = 0
    /\ registered = {}
    /\ subscriptions = {}
    /\ hasShownWelcome = FALSE
    /\ welcome = [shown |-> 0, open |-> FALSE, action |-> ""]
    /\ testProcess = NoTestRun
    /\ paletteCommand = NoPaletteRun
    /\ inserted = <<>>

Init == ToolsInit /\ ConcurrentInit /\ EditorInit

\* The caller (the language model host or the MCP client) takes the result.
Deliver ==
    /\ host # "none"
    /\ host' = "none"
    /\ tool' = ""
    /\ input' = <<>>
    /\ palettes' = <<>>
    /\ gradient' = NoGradient
    /\ response' = NoResponse
    /\ UNCHANGED <<concurrentVars, editorVars>>

Next ==
    \/ InvokePaletteTool
    \/ InvokeSchemeTool
    \/ InvokeAnalyzeTool
    \/ InvokeGradientTool
    \/ CallTool
    \/ ListTools
    \/ Deliver

Spec == Init /\ [][Next]_vars
(***************************************************************************)
(* What the properties read off a served request.                          *)
(***************************************************************************)
PaletteServed == tool = "generate_tailwind_palette" /\ Len(palettes) = 1
SchemeServed == tool = "generate_color_scheme" /\ Len(palettes) > 0
GradientServed ==
    host = "lm" /\ tool = "generate_tailwind_gradient" /\ Len(gradient.stops) > 0

\* '#' and six hexadecimal digits
IsHexColor(c) == Len(c) = 7 /\ Char(c, 1) = "#" /\ IsHexDigits(Slice(c, 1))

\* A string that denotes a color (hexadecimal or named)
IsColor(c) == chroma(<<c>>).ok

\* Two strings denoting the same color, whatever the case of their digits
SameColor(a, b) ==
    \/ a = b
    \/ IsColor(a) /\ IsColor(b) /\ chroma(<<a>>).rgb = chroma(<<b>>).rgb

\* The index of the first piece of text equal to p, 0 when there is none
FirstPiece(text, p) ==
    IF \E i \in 1..Len(text) : text[i] = p
    THEN CHOOSE i \in 1..Len(text) : text[i] = p /\ \A j \in 1..(i - 1) : text[j] # p
    ELSE 0

RECURSIVE Lines(_)
\* The lines of a text: the runs of pieces between line breaks
Lines(text) ==
    IF FirstPiece(text, NL) = 0 THEN <<text>>
    ELSE <<SubSeq(text, 1, FirstPiece(text, NL) - 1)>>
         \o Lines(SubSeq(text, FirstPiece(text, NL) + 1, Len(text)))

RECURSIVE TrimLeft(_)
TrimLeft(str) == IF Len(str) > 0 /\ Char(str, 1) = " " THEN TrimLeft(Slice(str, 1)) ELSE str

\* The configuration as it stands in the response of a served palette or scheme
\* request: what follows the heading, up to the blank line before the details.
ServedConfig ==
    LET first  == IF tool = "generate_tailwind_palette" THEN 8 ELSE 9
        marker == IF tool = "generate_tailwind_palette"
                  THEN "Palette details:" ELSE "Color breakdown:"
    IN  SubSeq(response.text, first, FirstPiece(response.text, marker) - 3)

ServedFormat == OrDefault(input.format, "js")

\* The colors object the served configuration was written from
ServedColors == ColorsOf(palettes, <<>>)

ShadeKeys == [i \in 1..Len(TAILWIND_SHADES) |-> ToString(TAILWIND_SHADES[i])]
IsShadeKey(p) == \E i \in 1..Len(ShadeKeys) : ShadeKeys[i] = p

(***************************************************************************)
(* C1                                                                      *)
(***************************************************************************)
\* C1: whenever a palette request with a valid hexadecimal base color has been
\* served, by the extension or by the server, shade 500 of the derived palette
\* is the base color (the same color, whatever the case of its digits).
C1_Shade500IsBase ==
    (PaletteServed /\ IsHexColor(input.baseColor[1]))
        => SameColor(Get(palettes[1].palette, "500"), input.baseColor[1])

(***************************************************************************)
(* C2                                                                      *)
(***************************************************************************)
\* base.get('hsl.*') of the served request's base color
ServedBaseHsl == rgb2hsl(chroma(input.baseColor).rgb)

\* The lightness the server computes for a shade of the served request
ShadeLightness(shade) == mcpShadeHsl(ServedBaseHsl, shade).l

LightnessOrdered ==
    /\ FLess(ShadeLightness(500), ShadeLightness(50))
    /\ FLess(ShadeLightness(950), ShadeLightness(500))

C3_EndStopsAreInputs ==
    GradientServed =>
        /\ gradient.stops[1].color = input.colors[1][1]
        /\ gradient.stops[Len(gradient.stops)].color = input.colors[1][Len(input.colors[1])]

\* A gradient of four stops over three colors whose ends differ, written in
\* upper case (interpolateColors would write them in lower case).
C3_Witness ==
    /\ GradientServed
    /\ input.colors = << <<"#FF0000", "red", "#0000FF">> >>
    /\ Len(gradient.stops) = 4
    /\ gradient.stops[1].color = "#FF0000"
    /\ gradient.stops[4].color = "#0000FF"

\* C4: a generated gradient has exactly `steps` stops; their positions, rounded
\* to two decimals (kept here in hundredths), start at 0, end at 100, stay
\* within [0, 100] and increase strictly.
C4_StepsAndPositions ==
    GradientServed =>
        /\ Len(gradient.stops) = OrDefault(input.steps, 10)
        /\ gradient.stops[1].position = 0
        /\ gradient.stops[Len(gradient.stops)].position = 10000
        /\ \A k \in 1..Len(gradient.stops) : gradient.stops[k].position \in 0..10000
        /\ \A k \in 1..(Len(gradient.stops) - 1) :
               gradient.stops[k].position < gradient.stops[k + 1].position

\* A gradient of four stops: 0, 33.33, 66.67 and 100.
C4_Witness ==
    /\ GradientServed
    /\ input.steps = <<4>>
    /\ Len(gradient.stops) = 4
    /\ gradient.stops[2].position = 3333
    /\ gradient.stops[3].position = 6667

\* C5: with no colors argument, an empty list or a single color the gradient
\* tool of the extension answers the text 'Error generating gradient: At least
\* 2 colors are required for gradient generation' and no stops are produced;
\* generateGradientStops itself refuses a list of fewer than 2 colors with
\* that error.
C5_TooFewColorsIsError ==
    (/\ host = "lm"
     /\ tool = "generate_tailwind_gradient"
     /\ (~Given(input.colors) \/ Len(input.colors[1]) < 2))
        => /\ response.kind = "text"
           /\ Flat(response.text) = "Error generating gradient: "
                  \o "At least 2 colors are required for gradient generation"
           /\ gradient = NoGradient
           /\ Given(input.colors) =>
                  LET g == generateGradientStops(input.colors[1], OrDefault(input.steps, 10),
                                                 OrDefault(input.direction, "to-r"))
                  IN  ~g.ok /\ g.message = "At least 2 colors are required for gradient generation"

\* The gradient tool was handed a single color.
C5_Witness ==
    /\ host = "lm"
    /\ tool = "generate_tailwind_gradient"
    /\ Given(input.colors)
    /\ Len(input.colors[1]) = 1
    /\ response.kind = "text"
    /\ gradient = NoGradient

(***************************************************************************)
(* C6                                                                      *)
(***************************************************************************)
\* The hues of a strategy's three seed colors, wrapped modulo 360
SeedHues(strategy, h) ==
    IF strategy = "complementary" THEN <<h % 360, (h + 180) % 360, (h + 90) % 360>>
    ELSE IF strategy = "analogous" THEN <<h % 360, (h + 30) % 360, (h - 30) % 360>>
    ELSE IF strategy = "monochromatic" THEN <<h % 360, h % 360, h % 360>>
    ELSE <<h % 360, (h + 120) % 360, (h + 240) % 360>>

\* The color has a hue, and it is within two degrees of deg
HueNear(color, deg) ==
    /\ IsColor(color)
    /\ ~IsNaN(rgb2hsl(chroma(<<color>>).rgb).h)
    /\ Min(Abs(FRound(rgb2hsl(chroma(<<color>>).rgb).h) - deg) % 360,
           360 - (Abs(FRound(rgb2hsl(chroma(<<color>>).rgb).h) - deg) % 360)) <= 2

\* C6: whenever a scheme request with a given base hue has been served, by the
\* extension or by the server, the shade-500 colors of the three palettes have
\* the hues of the strategy's three seeds (base hue plus the strategy's offsets,
\* modulo 360), to within two degrees.
C6_Shade500CarriesSeedHues ==
    (SchemeServed /\ Given(input.baseHue)) =>
        /\ Len(palettes) = 3
        /\ \A i \in 1..3 :
               HueNear(Get(palettes[i].palette, "500"),
                       SeedHues(input.strategy[1], input.baseHue[1])[i])

(***************************************************************************)
(* C7, C8                                                                  *)
(***************************************************************************)
\* C7: the css configuration of a served palette or scheme request, in the
\* extension and in the server, is the line ':root {', then one line
\* '--color-{name}-{shade}: {hex};' for every color name and every shade of it,
\* then the line '}'.
C7_CssOneLinePerShade ==
    ((PaletteServed \/ SchemeServed) /\ ServedFormat = "css") =>
        /\ Len(Lines(ServedConfig)) = 2 + 11 * Len(ServedColors)
        /\ Flat(Lines(ServedConfig)[1]) = ":root {"
        /\ Flat(Lines(ServedConfig)[Len(Lines(ServedConfig))]) = "}"
        /\ \A c \in 1..Len(ServedColors) : \A k \in 1..11 :
               TrimLeft(Flat(Lines(ServedConfig)[1 + 11 * (c - 1) + k]))
                   = "--color-" \o ServedColors[c].key \o "-" \o ShadeKeys[k] \o ": "
                     \o ServedColors[c].value[k].value \o ";"

\* C8: the configuration in the response of a served palette or scheme request
\* is what formatting the same palettes again gives, and in every encoding
\* (css, js, json) the shade keys written for each color are 50, 100, 200,
\* 300, 400, 500, 600, 700, 800, 900, 950 in this order.
C8_ShadeKeysAscending ==
    (PaletteServed \/ SchemeServed) =>
        /\ ServedConfig = IF host = "lm"
                          THEN generateTailwindConfig(palettes, ServedFormat)
                          ELSE mcpGenerateTailwindConfig(palettes, ServedFormat)
        /\ Len(SelectSeq(ServedConfig, IsShadeKey)) = 11 * Len(ServedColors)
        /\ \A k \in 1..Len(SelectSeq(ServedConfig, IsShadeKey)) :
               SelectSeq(ServedConfig, IsShadeKey)[k] = ShadeKeys[((k - 1) % 11) + 1]

\* A scheme of two distinct color names was formatted as json by the server.
C8_Witness ==
    /\ host = "mcp"
    /\ SchemeServed
    /\ ServedFormat = "json"
    /\ Len(ServedColors) = 2
    /\ Len(SelectSeq(ServedConfig, IsShadeKey)) = 22

(***************************************************************************)
(* C9, C10                                                                 *)
(***************************************************************************)
\* The input of the served request is malformed: a color that cannot be parsed,
\* an unknown strategy, fewer than 2 gradient colors or a missing argument.
MalformedInput ==
    \/ /\ tool = "generate_tailwind_palette"
       /\ (~Given(input.baseColor) \/ ~IsColor(input.baseColor[1]))
    \/ /\ tool = "generate_color_scheme"
       /\ (~Given(input.strategy) \/ input.strategy[1] \notin Strategies)
    \/ /\ tool = "analyze_color"
       /\ (~Given(input.color) \/ ~IsColor(input.color[1]))
    \/ /\ tool = "generate_tailwind_gradient"
       /\ (~Given(input.colors) \/ Len(input.colors[1]) < 2)

IsErrorText(text) == Len(text) > 0 /\ SubSeq(text[1], 1, 5) = "Error"

\* C9: whenever a tool callback of the extension has been handed malformed
\* input, what it returned is a text result carrying an error message.
C9_MalformedGivesErrorText ==
    (host = "lm" /\ MalformedInput) => (response.kind = "text" /\ IsErrorText(response.text))

\* C10: whatever request the server's CallTool handler has served, it returned
\* a text response; it never passed an exception on to its caller.
C10_HandlerNeverThrows ==
    (host = "mcp" /\ tool \in McpToolNames) => response.kind = "text"

(***************************************************************************)
(* C11, C12, C13                                                           *)
(***************************************************************************)
\* C11: the operations the server lists are exactly the four the extension
\* registers, and the server serves every one of them: a call of a registered
\* operation is not answered 'Unknown tool'.
C11_SameOperations ==
    /\ (host = "mcp" /\ tool = "tools/list")
           => {response.text[i] : i \in 1..Len(response.text)} = lmRegisteredTools
    /\ (host = "mcp" /\ tool \in lmRegisteredTools)
           => response # McpRethrow(tool, "Unknown tool: " \o tool)

\* The handler reported a failure: an error text in the extension, a thrown
\* error in the server.
Failed == response.kind = "throw" \/ (response.kind = "text" /\ IsErrorText(response.text))

\* C12: whenever a palette request has been served, by the extension or by the
\* server, a base color that cannot be parsed (or is missing) gave an error
\* and no palette, and a base color that can be parsed gave a palette.
C12_UnparsableBaseFails ==
    (host # "none" /\ tool = "generate_tailwind_palette") =>
        IF Given(input.baseColor) /\ IsColor(input.baseColor[1])
        THEN Len(palettes) = 1 /\ ~Failed
        ELSE palettes = <<>> /\ Failed

\* C13: whenever a scheme request has been served, by the extension or by the
\* server, with a strategy outside the four (a missing one and the names of
\* inherited properties included), the handler reported an error and derived
\* no palettes.
C13_UnknownStrategyFails ==
    (/\ host # "none"
     /\ tool = "generate_color_scheme"
     /\ (~Given(input.strategy) \/ input.strategy[1] \notin Strategies))
        => palettes = <<>> /\ Failed

\* The extension was asked for the strategy 'toString'.
C13_Witness ==
    /\ host = "lm"
    /\ tool = "generate_color_scheme"
    /\ input.strategy = <<"toString">>
    /\ palettes = <<>>
    /\ Failed

(***************************************************************************)
(* C14, C16, C17, C18                                                      *)
(***************************************************************************)
\* C14: whenever the gradient tool of the extension has been served a step
\* count outside 2..50, it answered an error text and produced no stops.
C14_StepsOutsideRangeRejected ==
    (/\ host = "lm"
     /\ tool = "generate_tailwind_gradient"
     /\ Given(input.steps)
     /\ input.steps[1] \notin 2..50)
        => Len(gradient.stops) = 0 /\ IsErrorText(response.text)

\* The name the palette of seed i is to carry: the i-th entry of the list, the
\* placeholder when the list has none.
ExpectedSchemeName(names, i) ==
    IF i <= Len(names) THEN names[i] ELSE "color" \o ToString(i)

\* C16: whenever a scheme request with one of the four strategies has been
\* served, by the extension or by the server, there are exactly 3 palettes, and
\* palette i carries the i-th entry of the names list when the list has one
\* and 'color{i}' (counted from 1) exactly when it has none.
C16_ThreeNamedPalettes ==
    (/\ host # "none"
     /\ tool = "generate_color_scheme"
     /\ Given(input.strategy)
     /\ input.strategy[1] \in Strategies)
        => /\ Len(palettes) = 3
           /\ \A i \in 1..Len(palettes) :
                  palettes[i].name =
                      ExpectedSchemeName(OrDefault(input.colorNames,
                                                   <<"primary", "secondary", "accent">>), i)

RECURSIVE Words(_)
\* The words of a line: the runs of pieces between single blanks
Words(line) ==
    IF FirstPiece(line, " ") = 0 THEN <<line>>
    ELSE <<SubSeq(line, 1, FirstPiece(line, " ") - 1)>>
         \o Words(SubSeq(line, FirstPiece(line, " ") + 1, Len(line)))

\* The classes in the response of a served gradient request of format
\* 'tailwind': the third line of the text.
ServedClasses == Words(Lines(response.text)[3])

\* words is the direction class, from-[first], a via-[c] per interior stop in
\* order, to-[last]
IsFromViaTo(words, stops, direction) ==
    /\ Len(words) = Len(stops) + 1
    /\ words[1] = <<"bg-gradient-", direction>>
    /\ words[2] = <<"from-[", stops[1].color, "]">>
    /\ \A k \in 2..(Len(stops) - 1) : words[k + 1] = <<"via-[", stops[k].color, "]">>
    /\ words[Len(stops) + 1] = <<"to-[", stops[Len(stops)].color, "]">>

TailwindGradientServed ==
    /\ GradientServed
    /\ OrDefault(input.format, "tailwind") = "tailwind"
    /\ Len(gradient.stops) >= 2

\* C17: whenever a gradient of n >= 2 stops has been served in the format
\* 'tailwind', the classes in the response are the direction class, exactly one
\* from-[c] of the first stop, one via-[c] per interior stop in order (n - 2 of
\* them, none when n = 2) and exactly one to-[c] of the last stop.
C17_TailwindFromViaTo ==
    TailwindGradientServed
        => IsFromViaTo(ServedClasses, gradient.stops, OrDefault(input.direction, "to-r"))

\* A gradient of four stops, two of them via colors, was served as classes.
C17_Witness ==
    /\ TailwindGradientServed
    /\ input.colors = << <<"#FF0000", "#0000FF">> >>
    /\ Len(gradient.stops) = 4
    /\ Len(ServedClasses) = 5
    /\ ServedClasses[3] = <<"via-[", "#aa0055", "]">>
    /\ ServedClasses[4] = <<"via-[", "#5500aa", "]">>

\* round(lower + factor * (upper - lower)) per channel of the two seeds, each
\* read as the color it denotes; factor is fn / fd
MixedChannels(rgb1, rgb2, fn, fd) ==
    [r |-> RoundMix(rgb1[1], rgb2[1], fn, fd),
     g |-> RoundMix(rgb1[2], rgb2[2], fn, fd),
     b |-> RoundMix(rgb1[3], rgb2[3], fn, fd)]

\* Stop k (counted from 1) of a gradient of `steps` stops over `colors` has a
\* fractional seed index and is the channel-wise mix of its two seeds
IsMixOfSeeds(stop, colors, steps, k) ==
    ((k - 1) * (Len(colors) - 1)) % (steps - 1) # 0
        => /\ IsHexColor(stop.color)
           /\ hexToRgb(stop.color) =
                  << MixedChannels(
                         chroma(<<colors[((k - 1) * (Len(colors) - 1)) \div (steps - 1) + 1]>>).rgb,
                         chroma(<<colors[((k - 1) * (Len(colors) - 1)) \div (steps - 1) + 2]>>).rgb,
                         ((k - 1) * (Len(colors) - 1)) % (steps - 1), steps - 1) >>

\* C18: in every generated gradient, every stop whose seed index is not a whole
\* number is a 7-character hex color whose channels are
\* round(lower + factor * (upper - lower)) of the two seed colors around it;
\* and the gradient of 3 steps over #FF0000 and #0000FF has the positions 0,
\* 50 and 100 (kept in hundredths) and the middle stop #800080.
C18_InteriorStopsAreMixed ==
    GradientServed =>
        /\ \A k \in 1..Len(gradient.stops) :
               IsMixOfSeeds(gradient.stops[k], input.colors[1], Len(gradient.stops), k)
        /\ (input.colors = << <<"#FF0000", "#0000FF">> >> /\ input.steps = <<3>>)
               => /\ [k \in 1..3 |-> gradient.stops[k].position] = <<0, 5000, 10000>>
                  /\ gradient.stops[2].color = "#800080"

(***************************************************************************)
(* C19, C20                                                                *)
(***************************************************************************)
\* Over the 11 shade keys in increasing order, no key has a computed lightness
\* above that of the key before it.
ShadesNonIncreasing ==
    \A i \in 1..(Len(TAILWIND_SHADES) - 1) :
        ~FLess(ShadeLightness(TAILWIND_SHADES[i]), ShadeLightness(TAILWIND_SHADES[i + 1]))

ShadeOfTriple(h, t) == ChromaHex(ChromaHsl(h, t.s, t.l))

\* C20: whenever the server has derived a palette, the HSL triple it used for
\* each of the 11 shades has exactly the hue of the base color (not a number
\* for a gray, as the base's own), and the color stored under the shade is the
\* one of the base's hue with the triple's saturation and lightness.
C20_HueUnchanged ==
    (host = "mcp" /\ PaletteServed) =>
        \A i \in 1..Len(TAILWIND_SHADES) :
            /\ mcpShadeHsl(ServedBaseHsl, TAILWIND_SHADES[i]).h = ServedBaseHsl.h
            /\ palettes[1].palette[i].value =
                   ShadeOfTriple(ServedBaseHsl.h, mcpShadeHsl(ServedBaseHsl, TAILWIND_SHADES[i]))

\* The server derived a palette from a blue: the hue is a number, and the
\* saturation and the lightness of shade 900 are not the base's.
C20_Witness ==
    /\ host = "mcp"
    /\ PaletteServed
    /\ input.baseColor = <<"#3b82f6">>
    /\ ~IsNaN(ServedBaseHsl.h)
    /\ mcpShadeHsl(ServedBaseHsl, 900).h = ServedBaseHsl.h
    /\ mcpShadeHsl(ServedBaseHsl, 900).s # ServedBaseHsl.s
    /\ mcpShadeHsl(ServedBaseHsl, 900).l # ServedBaseHsl.l

(***************************************************************************)
(* C15                                                                     *)
(***************************************************************************)
\* What the handler of the served request returns when it is invoked once more
\* with the same arguments and Math.random() * 360, if evaluated, is `random`.
Retry(h, t, in, random) ==
    IF h = "lm"
    THEN IF t = "generate_tailwind_palette" THEN PaletteToolResult(in)
         ELSE IF t = "generate_color_scheme" THEN SchemeToolResult(in, random)
         ELSE IF t = "analyze_color" THEN AnalyzeToolResult(in)
         ELSE GradientToolResult(in)
    ELSE IF t = "tools/list" THEN ListToolsResult
         ELSE CallToolResult(t, in, random)

\* Every retry of the served request answers what was answered.
RetrySameResponse ==
    \A random \in Hues : Retry(host, tool, input, random).response = response

\* A scheme request with one of the four strategies and no base hue
HueDrawn ==
    /\ tool = "generate_color_scheme"
    /\ Given(input.strategy)
    /\ input.strategy[1] \in Strategies
    /\ ~Given(input.baseHue)

\* C15 as stated: whatever request has been served, on either interface, a
\* second invocation with the same arguments returns the same response.
C15_RetrySameResponseAnyRequest ==
    host # "none" => RetrySameResponse

\* C15, amended: a second invocation with the same arguments returns the same
\* response for every request but a scheme request that names one of the four
\* strategies and gives no base hue.
C15_RetrySameResponse ==
    (host # "none" /\ ~HueDrawn) => RetrySameResponse

\* A scheme request with a base hue was served by the server.
C15_Witness ==
    /\ host = "mcp"
    /\ tool = "generate_color_scheme"
    /\ input.strategy = <<"triadic">>
    /\ input.baseHue = <<217>>
    /\ Len(palettes) = 3
    /\ RetrySameResponse

(***************************************************************************)
(* C21, C23, C26, C27, C28                                                 *)
(***************************************************************************)
\* '#' and six digits out of 0-9 and a-f
IsCanonicalHex(c) ==
    /\ Len(c) = 7
    /\ Char(c, 1) = "#"
    /\ \A i \in 2..7 : \E d \in 1..16 : Char(c, i) = Char(LowerHex, d)

\* C21: whenever palettes have been derived, by the extension or by the
\* server, from a palette or a scheme request, every color in every palette,
\* shade 500 included, is '#' followed by exactly six lowercase hex digits.
C21_CanonicalHex ==
    (host # "none" /\ tool \in {"generate_tailwind_palette", "generate_color_scheme"}) =>
        \A p \in 1..Len(palettes) :
            \A i \in 1..Len(palettes[p].palette) :
                IsCanonicalHex(palettes[p].palette[i].value)

\* Over the iterations 0..steps-1 the lower seed index starts at 0, ends at
\* n - 1 and never decreases, and a stop whose seed index is a whole number
\* carries that seed's string.
TraversesSeeds(stops, colors, n, steps) ==
    /\ LowerIndex(n, steps, 0) = 0
    /\ LowerIndex(n, steps, steps - 1) = n - 1
    /\ \A i \in 0..(steps - 2) : LowerIndex(n, steps, i) <= LowerIndex(n, steps, i + 1)
    /\ \A i \in 0..(steps - 1) :
           (i * (n - 1)) % (steps - 1) = 0
               => stops[i + 1].color = colors[(i * (n - 1)) \div (steps - 1) + 1]

\* C23: whenever a gradient has been generated from n >= 2 colors with a step
\* count in 2..50, the lower seed index of its stops is 0 for the first stop,
\* n - 1 for the last and non-decreasing in between, and every stop whose seed
\* index is a whole number has the input string of that seed, unchanged.
C23_SeedsTraversedInOrder ==
    (GradientServed /\ Len(gradient.stops) \in 2..50)
        => TraversesSeeds(gradient.stops, input.colors[1],
                          Len(input.colors[1]), Len(gradient.stops))

\* Five stops over three colors: the middle stop is the second color as given,
\* a color name.
C23_Witness ==
    /\ GradientServed
    /\ input.colors = << <<"#FF0000", "red", "#0000FF">> >>
    /\ Len(gradient.stops) = 5
    /\ gradient.stops[3].color = "red"
    /\ gradient.stops[5].color = "#0000FF"

\* The 24-bit number of a '#rrggbb' string
ColorNumber(c) == HexToNat(Slice(c, 1))

\* C26: whenever the extension has derived a palette from a 6-digit hex base
\* color, every color in it is '#' and exactly six hex digits, the colors of
\* the keys below 500 have a 24-bit number at least the base's and those of the
\* keys above 500 a number at most the base's.
C26_LighterAboveDarkerBelow ==
    (/\ host = "lm"
     /\ PaletteServed
     /\ IsHexColor(input.baseColor[1]))
        => \A i \in 1..Len(TAILWIND_SHADES) :
               /\ IsHexColor(palettes[1].palette[i].value)
               /\ TAILWIND_SHADES[i] < 500
                      => ColorNumber(palettes[1].palette[i].value)
                             >= ColorNumber(input.baseColor[1])
               /\ TAILWIND_SHADES[i] > 500
                      => ColorNumber(palettes[1].palette[i].value)
                             <= ColorNumber(input.baseColor[1])

\* How many pieces of a text are equal to p
CountPieces(text, p) == Cardinality({i \in 1..Len(text) : text[i] = p})

\* The named color groups of a configuration text: in the css encoding a group
\* is a run of one variable per shade key, in the others a key that opens an
\* object.
ColorGroups(config, format) ==
    IF format = "css"
    THEN CountPieces(config, "  --color-") \div Len(TAILWIND_SHADES)
    ELSE CountPieces(config, "\": ")

\* C27: whenever a palette or a scheme request has been served with a
\* configuration, by the extension or by the server, the configuration holds
\* as many named color groups as palettes were derived, in every encoding.
C27_OneGroupPerPalette ==
    (/\ host # "none"
     /\ tool \in {"generate_tailwind_palette", "generate_color_scheme"}
     /\ Len(palettes) > 0)
        => ColorGroups(ServedConfig, ServedFormat) = Len(palettes)

\* C28: whenever the gradient tool has been served at least two colors, every
\* stop color is one of the input strings or a '#rrggbb' string, and if one
\* of the colors is not 6-digit hex the tool answered an error text and
\* returned no stops.
C28_UnparsableSeedIsError ==
    (/\ host = "lm"
     /\ tool = "generate_tailwind_gradient"
     /\ Given(input.colors)
     /\ Len(input.colors[1]) >= 2)
        => /\ \A k \in 1..Len(gradient.stops) :
                  \/ IsHexColor(gradient.stops[k].color)
                  \/ \E c \in 1..Len(input.colors[1]) :
                         gradient.stops[k].color = input.colors[1][c]
           /\ (\E c \in 1..Len(input.colors[1]) : hexToRgb(input.colors[1][c]) = <<>>)
                  => Len(gradient.stops) = 0 /\ IsErrorText(response.text)

(***************************************************************************)
(* Invocations in flight at the same time.                                 *)
(*                                                                         *)
(* No callback awaits anything, so each one runs to completion on the      *)
(* JavaScript thread once it has started; what overlaps in time is the     *)
(* life of the results: a result stays with its invocation from the moment *)
(* the callback has produced it until the caller has taken it, while       *)
(* other callbacks run.  The only object of the module all callbacks share *)
(* is the array TAILWIND_SHADES, which the palette derivations walk with   *)
(* forEach.                                                                *)
(***************************************************************************)
\* TAILWIND_SHADES after a walk that takes each shade off the front of the
\* array with shift(), as a while loop over the array would.
ShadesAfterShift(list) == <<>>

\* TAILWIND_SHADES after TAILWIND_SHADES.forEach(...): forEach leaves the array
\* as it is.
ShadesAfterForEach(list) == list

\* The palettes of a result hold one entry per shade of the array the
\* derivation walked.
OverShades(r, list) ==
    LET Walked(entry) == \E i \in 1..Len(list) : ToString(list[i]) = entry.key
    IN  [r EXCEPT !.palettes =
             [p \in 1..Len(r.palettes) |->
                 [r.palettes[p] EXCEPT !.palette = SelectSeq(r.palettes[p].palette, Walked)]]]

WalksShades(t) == t \in {"generate_tailwind_palette", "generate_color_scheme"}

\* The requests drawn for the slots: every operation of both interfaces.
ConcurrentRequests ==
    {[host |-> h, tool |-> "generate_tailwind_palette", random |-> 0,
      input |-> [baseColor |-> <<b>>, name |-> <<>>, format |-> <<"css">>]] :
         h \in {"lm", "mcp"}, b \in {"#3B82F6", "#ff0000"}}
    \cup
    {[host |-> h, tool |-> "generate_color_scheme", random |-> 217,
      input |-> [strategy |-> <<"triadic">>, baseHue |-> hue, colorNames |-> <<>>,
                 format |-> <<"json">>]] :
         h \in {"lm", "mcp"}, hue \in {<<>>, <<0>>}}
    \cup
    {[host |-> h, tool |-> "analyze_color", random |-> 0,
      input |-> [color |-> <<"#3B82F6">>]] : h \in {"lm", "mcp"}}
    \cup
    {[host |-> "lm", tool |-> "generate_tailwind_gradient", random |-> 0,
      input |-> [colors |-> << <<"#FF0000", "#0000FF">> >>, steps |-> <<n>>,
                 direction |-> <<>>, format |-> <<>>]] : n \in {2, 3}}

\* What the handler of a request returns when it is the only one running.
Alone(req) == Retry(req.host, req.tool, req.input, req.random)

\* The callback of a request runs in a free slot, from its first line to its
\* return.
Invoke(slot) ==
    \E req \in ConcurrentRequests :
        /\ ~inflight[slot].busy
        /\ inflight' = [inflight EXCEPT ![slot] =
                            [busy |-> TRUE, request |-> req,
                             result |-> OverShades(Alone(req), shadeList)]]
        /\ shadeList' = IF WalksShades(req.tool) THEN ShadesAfterForEach(shadeList)
                        ELSE shadeList
        /\ UNCHANGED <<toolVars, editorVars>>

\* The caller of a slot takes its result.
Respond(slot) ==
    /\ inflight[slot].busy
    /\ inflight' = [inflight EXCEPT ![slot] = Idle]
    /\ UNCHANGED <<shadeList, toolVars, editorVars>>

ConcurrentNext == \E slot \in 1..MaxInflight : Invoke(slot) \/ Respond(slot)

ConcurrentSpec == Init /\ [][ConcurrentNext]_vars

\* C22: at every moment, whatever invocations are in flight and in whatever
\* order they were started and answered, the module-level shade list is as it
\* was loaded and the result held for each invocation (response, palettes and
\* stops) is the one its request gets when it runs alone.
C22_InvocationsIndependent ==
    /\ shadeList = TAILWIND_SHADES
    /\ \A slot \in 1..MaxInflight :
           inflight[slot].busy => inflight[slot].result = Alone(inflight[slot].request)

\* A palette of the extension and a scheme of the server are in flight
\* together, the scheme having been derived after the palette.
C22_Witness ==
    /\ inflight[1].busy
    /\ inflight[1].request.host = "lm"
    /\ inflight[1].request.tool = "generate_tailwind_palette"
    /\ Len(inflight[1].result.palettes) = 1
    /\ inflight[2].busy
    /\ inflight[2].request.host = "mcp"
    /\ inflight[2].request.tool = "generate_color_scheme"
    /\ Len(inflight[2].result.palettes) = 3
    /\ Len(inflight[2].result.palettes[3].palette) = Len(TAILWIND_SHADES)

(***************************************************************************)
(* The extension in the editor (src/extension.js): activation, the welcome *)
(* message, and the commands 'Test MCP Server' and 'Generate Color         *)
(* Palette'.  The commands 'Configure' and 'Generate Gradient' are         *)
(* registered but their runs are not followed.                             *)
(***************************************************************************)
ToolDisposables ==
    {"generatePaletteTool", "generateSchemeTool", "analyzeColorTool", "generateGradientTool"}
CommandDisposables ==
    {"disposable", "testCommand", "generateCommand", "generateGradientCommand"}

\* Every value a registration call of activate returns
Registrations == ToolDisposables \cup {"mcpDisposable"} \cup CommandDisposables

\* The two calls of context.subscriptions.push
Pushed == ToolDisposables \cup CommandDisposables

\* The persisted flag when activate returns, with update('hasShownWelcome',
\* true) moved into the callback of the buttons.
FlagLeftToButtons(flag) == flag

\* The persisted flag when activate returns: update('hasShownWelcome', true)
\* is called, without waiting for a button, whenever the flag was not set.
FlagAfterActivate(flag) == IF ~flag THEN TRUE ELSE flag

WelcomeActions == {"Test Tools", "Learn More", "dismissed"}

\* activate(context): a synchronous function, so one step.
Activate ==
    /\ ~active
    /\ activations < MaxActivations
    /\ active' = TRUE
    /\ activations' = activations + 1
    /\ registered' = registered \cup Registrations
    /\ subscriptions' = Pushed
    /\ welcome' = IF ~hasShownWelcome
                  THEN [shown |-> welcome.shown + 1, open |-> TRUE, action |-> ""]
                  ELSE welcome
    /\ hasShownWelcome' = FlagAfterActivate(hasShownWelcome)
    /\ UNCHANGED <<testProcess, paletteCommand, inserted, toolVars, concurrentVars>>

\* The user presses a button of the welcome message or closes it: the then
\* callback runs a command or opens a page, and touches no state of the
\* extension.
ChooseWelcomeAction ==
    \E action \in WelcomeActions :
        /\ welcome.open
        /\ welcome' = [welcome EXCEPT !.open = FALSE, !.action = action]
        /\ UNCHANGED <<active, activations, registered, subscriptions, hasShownWelcome,
                       testProcess, paletteCommand, inserted, toolVars, concurrentVars>>

\* The editor deactivates the extension: deactivate() is empty, the editor
\* disposes of what is in context.subscriptions.
Deactivate ==
    /\ active
    /\ active' = FALSE
    /\ registered' = registered \ subscriptions
    /\ subscriptions' = {}
    /\ UNCHANGED <<activations, hasShownWelcome, welcome, testProcess, paletteCommand,
                   inserted, toolVars, concurrentVars>>

(***************************************************************************)
(* The command tailwind-color-generator.test                               *)
(***************************************************************************)
Banner == "Tailwind Color Generator MCP Server running"
Working == "MCP Server is working correctly!"
NoOutput == "MCP Server started but no output detected. This may be normal for stdio servers."

\* What the spawned process can write, as the chunks of its data events: the
\* line main() prints once connected (whole, or split in two), nothing at all,
\* or the trace of a failure to start.
ServerOutputs ==
    {out \in {<<>>,
              <<"Tailwind Color Generator MCP Server running on stdio", NL>>,
              <<"Tailwind Color Generator MCP ", "Server running on stdio">>,
              <<"Error: Cannot find module 'chroma-js'">>,
              <<"Server error: ", "Error: Cannot find module">>,
              <<"node: bad option">>} : Len(out) <= MaxChunks}

\* str.includes(sub)
Includes(str, sub) ==
    \E i \in 1..(Len(str) - Len(sub) + 1) : SubSeq(str, i, i + Len(sub) - 1) = sub

\* The message the timer callback shows
TestMessage(output, hasOutput) ==
    IF Includes(Flat(output), Banner) \/ hasOutput THEN Working ELSE NoOutput

\* The command spawns the server and sets the 2-second timer.  `script` is what
\* the process is going to write if it is given the time.  One run at a time
\* is followed.
RunTestCommand ==
    \E script \in ServerOutputs :
        /\ active
        /\ testProcess.state # "running"
        /\ testProcess' = [state |-> "running", script |-> script, output |-> <<>>,
                           hasOutput |-> FALSE, shown |-> <<>>]
        /\ UNCHANGED <<active, activations, registered, subscriptions, hasShownWelcome,
                       welcome, paletteCommand, inserted, toolVars, concurrentVars>>

\* A data event of stdout or stderr
Data ==
    /\ testProcess.state = "running"
    /\ Len(testProcess.output) < Len(testProcess.script)
    /\ testProcess' =
           [testProcess EXCEPT
               !.output = Append(@, testProcess.script[Len(testProcess.output) + 1]),
               !.hasOutput = TRUE]
    /\ UNCHANGED <<active, activations, registered, subscriptions, hasShownWelcome,
                   welcome, paletteCommand, inserted, toolVars, concurrentVars>>

\* The timer callback: kill, then one of the two messages.
TimerFires ==
    /\ testProcess.state = "running"
    /\ testProcess' =
           [testProcess EXCEPT
               !.state = "killed",
               !.shown = Append(@, TestMessage(testProcess.output, testProcess.hasOutput))]
    /\ UNCHANGED <<active, activations, registered, subscriptions, hasShownWelcome,
                   welcome, paletteCommand, inserted, toolVars, concurrentVars>>

(***************************************************************************)
(* The command tailwind-color-generator.generatePalette                    *)
(***************************************************************************)
NoEditor == "No active editor found"

\* The object literal basicPalette
basicPalette(baseColor) ==
    <<[key |-> "50", value |-> "#f0f9ff"], [key |-> "100", value |-> "#e0f2fe"],
      [key |-> "200", value |-> "#bae6fd"], [key |-> "300", value |-> "#7dd3fc"],
      [key |-> "400", value |-> "#38bdf8"], [key |-> "500", value |-> baseColor],
      [key |-> "600", value |-> "#0284c7"], [key |-> "700", value |-> "#0369a1"],
      [key |-> "800", value |-> "#075985"], [key |-> "900", value |-> "#0c4a6e"],
      [key |-> "950", value |-> "#082f49"]>>

\* configText for a palette object, in the three formats of the command
CommandConfigText(palette, paletteName, format) ==
    IF format = "css"
    THEN CssVariables(<<[key |-> paletteName, value |-> palette]>>, NL)
    ELSE IF format = "js"
    THEN <<"module.exports = {", NL, "  theme: {", NL, "    extend: {", NL,
           "      colors: {", NL, "        ", paletteName, ": ">>
         \o ShadesJson(palette, 0, 10)
         \o <<NL, "      }", NL, "    }", NL, "  }", NL, "}">>
    ELSE ColorsJson(<<[key |-> paletteName, value |-> palette]>>, 2)

Generated(paletteName, baseColor) ==
    <<"Generated ", paletteName, " palette from ", baseColor>>

\* What the user can enter at the prompts; <<>> is a prompt dismissed.  The
\* first prompt does not accept an empty line (validateInput), the second does.
EnteredColors == Opt({"#3B82F6", "#ff0000", "notacolor"})
EnteredNames == Opt({"primary", "brand", ""})
EnteredFormats == Opt(Formats)

\* The command starts: without an active editor it shows an error and ends,
\* otherwise it opens the prompt for the base color.
StartPaletteCommand ==
    \E editor \in BOOLEAN :
        /\ active
        /\ paletteCommand.at = "idle"
        /\ paletteCommand' =
               IF editor
               THEN [NoPaletteRun EXCEPT !.at = "baseColor", !.editor = TRUE]
               ELSE [NoPaletteRun EXCEPT !.shown = << <<NoEditor>> >>]
        /\ inserted' = <<>>
        /\ UNCHANGED <<active, activations, registered, subscriptions, hasShownWelcome,
                       welcome, testProcess, toolVars, concurrentVars>>

\* await showInputBox for the base color, and `if (!baseColor) return`
AnswerBaseColor ==
    \E value \in EnteredColors :
        /\ paletteCommand.at = "baseColor"
        /\ paletteCommand' =
               IF ~Given(value) \/ value[1] = ""
               THEN [paletteCommand EXCEPT !.at = "idle"]
               ELSE [paletteCommand EXCEPT !.at = "paletteName", !.baseColor = value]
        /\ UNCHANGED <<inserted, active, activations, registered, subscriptions,
                       hasShownWelcome, welcome, testProcess, toolVars, concurrentVars>>

\* await showInputBox for the name, and `if (!paletteName) return`
AnswerPaletteName ==
    \E value \in EnteredNames :
        /\ paletteCommand.at = "paletteName"
        /\ paletteCommand' =
               IF ~Given(value) \/ value[1] = ""
               THEN [paletteCommand EXCEPT !.at = "idle"]
               ELSE [paletteCommand EXCEPT !.at = "format", !.paletteName = value]
        /\ UNCHANGED <<inserted, active, activations, registered, subscriptions,
                       hasShownWelcome, welcome, testProcess, toolVars, concurrentVars>>

\* await showQuickPick for the format, `if (!format) return`, and the rest of
\* the command: the text is built, inserted at the cursor and announced.
AnswerFormat ==
    \E value \in EnteredFormats :
        /\ paletteCommand.at = "format"
        /\ IF ~Given(value)
           THEN /\ paletteCommand' = [paletteCommand EXCEPT !.at = "idle"]
                /\ inserted' = inserted
           ELSE /\ paletteCommand' =
                       [paletteCommand EXCEPT
                           !.at = "idle",
                           !.format = value,
                           !.shown = Append(@, Generated(paletteCommand.paletteName[1],
                                                         paletteCommand.baseColor[1]))]
                /\ inserted' =
                       Append(inserted,
                              CommandConfigText(basicPalette(paletteCommand.baseColor[1]),
                                                paletteCommand.paletteName[1], value[1]))
        /\ UNCHANGED <<active, activations, registered, subscriptions, hasShownWelcome,
                       welcome, testProcess, toolVars, concurrentVars>>

EditorNext ==
    \/ Activate
    \/ ChooseWelcomeAction
    \/ Deactivate
    \/ RunTestCommand
    \/ Data
    \/ TimerFires
    \/ StartPaletteCommand
    \/ AnswerBaseColor
    \/ AnswerPaletteName
    \/ AnswerFormat

EditorSpec == Init /\ [][EditorNext]_vars

(***************************************************************************)
(* C24, C25, C29, C30                                                      *)
(***************************************************************************)
\* C24: in every run of the test command the message 'MCP Server is working
\* correctly!' has been shown only if the output of the spawned process holds
\* its startup banner; and once the timer has fired the process is killed and
\* exactly one message, the success or the warning, has been shown.
C24_SuccessOnlyOnBanner ==
    /\ \A i \in 1..Len(testProcess.shown) :
           testProcess.shown[i] = Working => Includes(Flat(testProcess.output), Banner)
    /\ testProcess.state = "killed"
           => /\ Len(testProcess.shown) = 1
              /\ testProcess.shown[1] \in {Working, NoOutput}
    /\ testProcess.state = "running" => testProcess.shown = <<>>

\* The run of the palette command has shown its success message.
SuccessShown ==
    \E i \in 1..Len(paletteCommand.shown) : paletteCommand.shown[i][1] = "Generated "

\* The prompts were answered in order: a later answer is there only with the
\* earlier ones, a later prompt is open only with the earlier answers.
AnsweredInOrder ==
    /\ paletteCommand.at = "baseColor" => paletteCommand.editor
    /\ paletteCommand.at = "paletteName"
           => paletteCommand.editor /\ Given(paletteCommand.baseColor)
    /\ paletteCommand.at = "format"
           => /\ paletteCommand.editor
              /\ Given(paletteCommand.baseColor)
              /\ Given(paletteCommand.paletteName)
    /\ Given(paletteCommand.paletteName) => Given(paletteCommand.baseColor)
    /\ Given(paletteCommand.format) => Given(paletteCommand.paletteName)

\* The palette the entered base color generates, by the derivation of the
\* extension or by that of the server
GeneratedPalettes(baseColor, paletteName) ==
    {generateTailwindPalette(baseColor, paletteName).value.palette}
    \cup (IF mcpGenerateTailwindPalette(baseColor, paletteName).ok
          THEN {mcpGenerateTailwindPalette(baseColor, paletteName).value.palette}
          ELSE {})

\* C25: in every run of the palette command the prompts are answered in the
\* order base color, name, format; text has been inserted, and the success
\* message shown, only when an editor was active and all three were supplied;
\* and what was inserted is the configuration of the palette generated from
\* the entered base color.
C25_InsertsGeneratedPalette ==
    /\ AnsweredInOrder
    /\ Len(inserted) <= 1
    /\ (inserted # <<>> \/ SuccessShown)
           => /\ paletteCommand.editor
              /\ Given(paletteCommand.baseColor)
              /\ Given(paletteCommand.paletteName)
              /\ Given(paletteCommand.format)
              /\ Len(inserted) = 1
              /\ SuccessShown
    /\ \A i \in 1..Len(inserted) :
           \E palette \in GeneratedPalettes(paletteCommand.baseColor,
                                            paletteCommand.paletteName[1]) :
               inserted[i] = CommandConfigText(palette, paletteCommand.paletteName[1],
                                               paletteCommand.format[1])

\* C29: while the extension is active every registration activate has made is
\* a member of context.subscriptions, and once the extension has been
\* deactivated none of its registrations is live any more.
C29_AllRegistrationsSubscribed ==
    /\ active => registered \subseteq subscriptions
    /\ ~active => registered = {}

\* C30: the welcome message has been shown at most once over all activations,
\* namely in the first, and after any activation the persisted flag
\* hasShownWelcome is set, whether a button has been pressed, the message has
\* been closed or it is still open.
C30_WelcomeOnce ==
    /\ welcome.shown <= 1
    /\ activations >= 1 => welcome.shown = 1 /\ hasShownWelcome
    /\ activations = 0 => welcome.shown = 0 /\ ~hasShownWelcome

\* The extension is active for the second time, the welcome message of the
\* first activation never having been answered.
C30_Witness ==
    /\ active
    /\ activations = 2
    /\ welcome.shown = 1
    /\ welcome.open
    /\ hasShownWelcome

=============================================================================
